---- MODULE Spec2Model ----
(***************************************************************************)
(* Model of news-resolver.py: one run of the script that resolves a Google *)
(* News redirect URL through the batchexecute endpoint.                    *)
(*                                                                         *)
(* Text is modelled as a sequence of one-character strings, so that        *)
(* str.replace, json.dumps and json.loads are computed character by        *)
(* character.  A JSON value is a record [t, v]:                            *)
(*   t = "arr"  v = sequence of values      (Python list)                  *)
(*   t = "str"  v = sequence of characters  (Python str)                   *)
(*   t = "num"  v = integer                 (Python int)                   *)
(*   t = "null" v = 0                       (Python None)                  *)
(*   t = "bool" v = BOOLEAN                 (Python bool)                  *)
(*   t = "obj"  v = sequence of <<key, value>> pairs (Python dict)         *)
(* The texts the model enumerates contain no float literal and no \u, \b   *)
(* escape; those parts of the JSON grammar are not modelled.               *)
(***************************************************************************)
EXTENDS Integers, Sequences, FiniteSets, TLC

VARIABLES pc, resp, data, obj, inner, payload, response, array_string,
          article_url, stdout, exitCode, error, failedAt, getCount, postCount

vars == <<pc, resp, data, obj, inner, payload, response, array_string,
          article_url, stdout, exitCode, error, failedAt, getCount, postCount>>

----------------------------------------------------------------------------
(* Characters *)

QUOTE == "\""
BSL == "\\"
NL == "\n"
TAB == "\t"
CR == "\r"
FF == "\f"
SP == " "

Whitespace == {SP, NL, TAB, CR}

Digits == <<"0", "1", "2", "3", "4", "5", "6", "7", "8", "9">>

DigitSet == {Digits[i] : i \in 1..10}

DigitVal(c) == (CHOOSE i \in 1..10 : Digits[i] = c) - 1

Max(a, b) == IF a >= b THEN a ELSE b

Min(a, b) == IF a <= b THEN a ELSE b

----------------------------------------------------------------------------
(* JSON values *)

Arr(s) == [t |-> "arr", v |-> s]

Str(s) == [t |-> "str", v |-> s]

Num(n) == [t |-> "num", v |-> n]

Null == [t |-> "null", v |-> 0]

Bool(b) == [t |-> "bool", v |-> b]

Obj(s) == [t |-> "obj", v |-> s]

----------------------------------------------------------------------------
(* str.replace(old, new): every non-overlapping occurrence, left to right *)

MatchAt(s, i, old) ==
    /\ i + Len(old) - 1 <= Len(s)
    /\ \A k \in 1..Len(old) : s[i + k - 1] = old[k]

MinOf(S) == CHOOSE x \in S : \A y \in S : x <= y

(* the text from index i on is copied up to the next occurrence of old,    *)
(* which is replaced, and the scan resumes after it                        *)
RECURSIVE ReplaceFrom(_, _, _, _)
ReplaceFrom(s, i, old, new) ==
    LET found == {j \in i..Len(s) : MatchAt(s, j, old)}
    IN IF found = {} THEN SubSeq(s, i, Len(s))
       ELSE LET j == MinOf(found)
            IN SubSeq(s, i, j - 1) \o new
                   \o ReplaceFrom(s, j + Len(old), old, new)

Replace(s, old, new) == ReplaceFrom(s, 1, old, new)

----------------------------------------------------------------------------
(* json.dumps with the default separators ", " and ": " *)

RECURSIVE NatChars(_)
NatChars(n) ==
    IF n < 10 THEN <<Digits[n + 1]>>
    ELSE NatChars(n \div 10) \o <<Digits[(n % 10) + 1]>>

IntChars(n) == IF n < 0 THEN <<"-">> \o NatChars(0 - n) ELSE NatChars(n)

(* variant: no character is escaped *)
EscapeCharRaw(c) == <<c>>

EscapeChar(c) ==
    IF c = QUOTE THEN <<BSL, QUOTE>>
    ELSE IF c = BSL THEN <<BSL, BSL>>
    ELSE IF c = NL THEN <<BSL, "n">>
    ELSE IF c = TAB THEN <<BSL, "t">>
    ELSE IF c = CR THEN <<BSL, "r">>
    ELSE IF c = FF THEN <<BSL, "f">>
    ELSE <<c>>

(* every character replaced by its escape, the text split in halves *)
RECURSIVE EscapeChars(_)
EscapeChars(s) ==
    IF s = <<>> THEN <<>>
    ELSE IF Len(s) = 1 THEN EscapeChar(s[1])
    ELSE LET h == Len(s) \div 2
         IN EscapeChars(SubSeq(s, 1, h)) \o EscapeChars(SubSeq(s, h + 1, Len(s)))

DumpsStr(s) == <<QUOTE>> \o EscapeChars(s) \o <<QUOTE>>

RECURSIVE Dumps(_), DumpsItems(_), DumpsMembers(_)
Dumps(val) ==
    IF val.t = "str" THEN DumpsStr(val.v)
    ELSE IF val.t = "num" THEN IntChars(val.v)
    ELSE IF val.t = "null" THEN <<"n", "u", "l", "l">>
    ELSE IF val.t = "bool"
         THEN (IF val.v THEN <<"t", "r", "u", "e">>
                        ELSE <<"f", "a", "l", "s", "e">>)
    ELSE IF val.t = "arr" THEN <<"[">> \o DumpsItems(val.v) \o <<"]">>
    ELSE <<"{">> \o DumpsMembers(val.v) \o <<"}">>

DumpsItems(s) ==
    IF s = <<>> THEN <<>>
    ELSE IF Len(s) = 1 THEN Dumps(s[1])
    ELSE Dumps(s[1]) \o <<",", SP>> \o DumpsItems(Tail(s))

DumpsMembers(s) ==
    IF s = <<>> THEN <<>>
    ELSE IF Len(s) = 1 THEN DumpsStr(s[1][1]) \o <<":", SP>> \o Dumps(s[1][2])
    ELSE DumpsStr(s[1][1]) \o <<":", SP>> \o Dumps(s[1][2]) \o <<",", SP>>
         \o DumpsMembers(Tail(s))

----------------------------------------------------------------------------
(* json.loads: recursive descent over the text; a result is                *)
(* [ok, val, pos] with pos the index after the parsed value.               *)

ParseFail == [ok |-> FALSE, val |-> Null, pos |-> 0]

ParseOk(val, pos) == [ok |-> TRUE, val |-> val, pos |-> pos]

RECURSIVE SkipWS(_, _)
SkipWS(s, i) ==
    IF i <= Len(s) /\ s[i] \in Whitespace THEN SkipWS(s, i + 1) ELSE i

(* the body of a string literal, i the index after the opening quote: the *)
(* characters up to the next quote, backslash or control character are    *)
(* taken as they are                                                       *)
RECURSIVE ParseStringBody(_, _, _)
ParseStringBody(s, i, acc) ==
    LET stops == {j \in i..Len(s) : s[j] \in {QUOTE, BSL, NL, TAB, CR, FF}}
    IN IF stops = {} THEN ParseFail
       ELSE LET j == MinOf(stops)
                chunk == acc \o SubSeq(s, i, j - 1)
            IN IF s[j] = QUOTE THEN ParseOk(Str(chunk), j + 1)
               ELSE IF s[j] # BSL THEN ParseFail
               ELSE IF j + 1 > Len(s) THEN ParseFail
               ELSE IF s[j + 1] \in {QUOTE, BSL, "/"}
                    THEN ParseStringBody(s, j + 2, Append(chunk, s[j + 1]))
               ELSE IF s[j + 1] = "n"
                    THEN ParseStringBody(s, j + 2, Append(chunk, NL))
               ELSE IF s[j + 1] = "t"
                    THEN ParseStringBody(s, j + 2, Append(chunk, TAB))
               ELSE IF s[j + 1] = "r"
                    THEN ParseStringBody(s, j + 2, Append(chunk, CR))
               ELSE IF s[j + 1] = "f"
                    THEN ParseStringBody(s, j + 2, Append(chunk, FF))
               ELSE ParseFail

RECURSIVE ParseDigits(_, _, _)
ParseDigits(s, i, acc) ==
    IF i <= Len(s) /\ s[i] \in DigitSet
    THEN ParseDigits(s, i + 1, 10 * acc + DigitVal(s[i]))
    ELSE ParseOk(Num(acc), i)

(* an integer literal: optional minus, then 0 or a digit string without a *)
(* leading zero                                                             *)
ParseNat(s, i) ==
    IF i > Len(s) \/ s[i] \notin DigitSet THEN ParseFail
    ELSE IF s[i] = "0" THEN ParseOk(Num(0), i + 1)
    ELSE ParseDigits(s, i, 0)

ParseNumber(s, i) ==
    IF s[i] = "-"
    THEN LET r == ParseNat(s, i + 1)
         IN IF r.ok THEN ParseOk(Num(0 - r.val.v), r.pos) ELSE ParseFail
    ELSE ParseNat(s, i)

(* a dict keeps the position of a key's first occurrence and the value of *)
(* its last                                                                *)
RECURSIVE PutMember(_, _, _)
PutMember(ms, k, val) ==
    IF ms = <<>> THEN << <<k, val>> >>
    ELSE IF Head(ms)[1] = k THEN << <<k, val>> >> \o Tail(ms)
    ELSE <<Head(ms)>> \o PutMember(Tail(ms), k, val)

RECURSIVE ParseValue(_, _), ParseItems(_, _, _), ParseMembers(_, _, _)
ParseValue(s, i) ==
    IF i > Len(s) THEN ParseFail
    ELSE IF s[i] = QUOTE THEN ParseStringBody(s, i + 1, <<>>)
    ELSE IF s[i] = "[" THEN
        LET j == SkipWS(s, i + 1)
        IN IF j <= Len(s) /\ s[j] = "]" THEN ParseOk(Arr(<<>>), j + 1)
           ELSE ParseItems(s, j, <<>>)
    ELSE IF s[i] = "{" THEN
        LET j == SkipWS(s, i + 1)
        IN IF j <= Len(s) /\ s[j] = "}" THEN ParseOk(Obj(<<>>), j + 1)
           ELSE ParseMembers(s, j, <<>>)
    ELSE IF MatchAt(s, i, <<"n", "u", "l", "l">>) THEN ParseOk(Null, i + 4)
    ELSE IF MatchAt(s, i, <<"t", "r", "u", "e">>) THEN ParseOk(Bool(TRUE), i + 4)
    ELSE IF MatchAt(s, i, <<"f", "a", "l", "s", "e">>)
         THEN ParseOk(Bool(FALSE), i + 5)
    ELSE IF s[i] = "-" \/ s[i] \in DigitSet THEN ParseNumber(s, i)
    ELSE ParseFail

(* the items of an array, i at the first character of the next item *)
ParseItems(s, i, acc) ==
    LET r == ParseValue(s, i)
    IN IF ~r.ok THEN ParseFail
       ELSE LET j == SkipWS(s, r.pos)
            IN IF j > Len(s) THEN ParseFail
               ELSE IF s[j] = "]" THEN ParseOk(Arr(Append(acc, r.val)), j + 1)
               ELSE IF s[j] = ","
                    THEN ParseItems(s, SkipWS(s, j + 1), Append(acc, r.val))
               ELSE ParseFail

(* the members of an object, i at the opening quote of the next key *)
ParseMembers(s, i, acc) ==
    IF i > Len(s) \/ s[i] # QUOTE THEN ParseFail
    ELSE LET k == ParseStringBody(s, i + 1, <<>>)
         IN IF ~k.ok THEN ParseFail
            ELSE LET c == SkipWS(s, k.pos)
                 IN IF c > Len(s) \/ s[c] # ":" THEN ParseFail
                    ELSE LET r == ParseValue(s, SkipWS(s, c + 1))
                         IN IF ~r.ok THEN ParseFail
                            ELSE LET j == SkipWS(s, r.pos)
                                     ms == PutMember(acc, k.val.v, r.val)
                                 IN IF j > Len(s) THEN ParseFail
                                    ELSE IF s[j] = "}"
                                         THEN ParseOk(Obj(ms), j + 1)
                                    ELSE IF s[j] = ","
                                         THEN ParseMembers(s, SkipWS(s, j + 1), ms)
                                    ELSE ParseFail

(* json.loads(s): one value between optional whitespace, nothing after it *)
Loads(s) ==
    LET r == ParseValue(s, SkipWS(s, 1))
    IN IF r.ok /\ SkipWS(s, r.pos) = Len(s) + 1 THEN r ELSE ParseFail

----------------------------------------------------------------------------
(* Python sequence operations on list and str values *)

(* variant: a negative bound resolved to the distance from the start *)
SliceBoundAbs(n, k) ==
    IF k < 0 THEN Min(IF n + k < 0 THEN 0 - (n + k) ELSE n + k, n) ELSE Min(k, n)

(* the index a slice bound k denotes in a sequence of length n *)
SliceBound(n, k) == IF k < 0 THEN Max(n + k, 0) ELSE Min(k, n)

(* s[lo:hi] for slice bounds already resolved to 0..Len(s) *)
Slice(s, lo, hi) == [k \in 1..Max(hi - lo, 0) |-> s[lo + k]]

(* s[:k] *)
SliceTo(s, k) == Slice(s, 0, SliceBound(Len(s), k))

(* s[k:] *)
SliceFrom(s, k) == Slice(s, SliceBound(Len(s), k), Len(s))

(* variant: one element too few removed *)
TransformOffByOne(s) == SliceTo(s, 0 - 5) \o SliceFrom(s, 0 - 2)

(* obj[:-6] + obj[-2:] *)
Transform(s) == SliceTo(s, 0 - 6) \o SliceFrom(s, 0 - 2)

PyErr(e) == [ok |-> FALSE, val |-> Null, err |-> e]

PyOk(val) == [ok |-> TRUE, val |-> val, err |-> "none"]

(* val[i] for an integer i >= 0 *)
Index(val, i) ==
    IF val.t = "arr"
    THEN (IF i < Len(val.v) THEN PyOk(val.v[i + 1]) ELSE PyErr("IndexError"))
    ELSE IF val.t = "str"
    THEN (IF i < Len(val.v) THEN PyOk(Str(<<val.v[i + 1]>>))
                            ELSE PyErr("IndexError"))
    ELSE IF val.t = "obj" THEN PyErr("KeyError")
    ELSE PyErr("TypeError")

----------------------------------------------------------------------------
(* The fetched page: the elements of the document in document order.  An  *)
(* element is [tag, hasDataP, dataP].                                      *)

Element(tag, has, dp) == [tag |-> tag, hasDataP |-> has, dataP |-> dp]

(* variant: the selector [data-p], any tag *)
MatchesAnyTag(el) == el.hasDataP

Matches(el) == el.tag = "c-wiz" /\ el.hasDataP

(* select_one('c-wiz[data-p]'): index of the first matching element, 0 for *)
(* None                                                                    *)
RECURSIVE SelectFrom(_, _)
SelectFrom(page, i) ==
    IF i > Len(page) THEN 0
    ELSE IF Matches(page[i]) THEN i
    ELSE SelectFrom(page, i + 1)

SelectOne(page) == SelectFrom(page, 1)

----------------------------------------------------------------------------
(* Literals of the script *)

TokenPrefix == <<"%", ".", "@", ".">>

GartPrefix ==
    <<"[", QUOTE, "g", "a", "r", "t", "u", "r", "l", "r", "e", "q", QUOTE, ",">>

ResponsePrefix == <<")", "]", "}", "'">>

RpcId == <<"F", "b", "v", "4", "j", "e">>

NullLit == <<"n", "u", "l", "l">>

GenericLit == <<"g", "e", "n", "e", "r", "i", "c">>

Unset == [t |-> "unset", v |-> 0]

NoResponse == [status |-> 0, text |-> <<>>]

NoPayload == [k \in {} |-> <<>>]

----------------------------------------------------------------------------
(* Bounds and the inputs of a run *)

MaxLen == 9

(* the list [1, 2, ..., n] *)
Count(n) == Arr([k \in 1..n |-> Num(k)])

(* a token of the shape the page carries: strings holding quotes and       *)
(* backslashes, a nested list, null, a dict                                *)
MixedToken ==
    Arr(<<Str(<<"a", QUOTE, "q">>), Arr(<<Num(1), Str(<<BSL, "n">>)>>), Null,
          Num(0 - 12), Bool(TRUE), Obj(<< <<(<<"a">>), Num(1)>> >>),
          Str(<<>>), Str(<<"a", NL, "e">>), Num(7), Num(8)>>)

(* the text of a list without its opening bracket, as it follows %.@. *)
AfterPrefix(val) == TokenPrefix \o Tail(Dumps(val))

ListTokens == {Dumps(Count(n)) : n \in 0..MaxLen}

PrefixedTokens ==
    {AfterPrefix(Count(n)) : n \in {0, 1, 4, 7, 8}}
        \cup {AfterPrefix(MixedToken), Dumps(MixedToken),
              TokenPrefix \o Dumps(Count(8)) \o <<"]">>,
              TokenPrefix \o TokenPrefix \o <<"1", "]", "]">>}

NonListTokens ==
    {Dumps(Str(<<"a", "q", "a", "q", "a", "q", "a", "q", "e">>)),
     Dumps(Str(<<"a", "q", "e">>)),
     Dumps(Str(<<>>)),
     Dumps(Num(7)),
     Dumps(Null),
     Dumps(Bool(FALSE)),
     Dumps(Obj(<<>>)),
     Dumps(Obj(<< <<(<<"a">>), Count(8)>> >>))}

BadTokens ==
    {<<>>,
     <<"[", "1", ",">>,
     <<"[", "0", "1", "]">>,
     <<"%", ".", "@">>,
     <<"[", "1", "]", "1">>,
     <<QUOTE, "a">>}

DataPs == ListTokens \cup PrefixedTokens \cup NonListTokens \cup BadTokens

Div == Element("div", FALSE, <<>>)

Pages ==
    {<<>>, <<Div>>, <<Element("c-wiz", FALSE, <<>>)>>,
     <<Element("div", TRUE, Dumps(Count(8)))>>,
     <<Div, Element("div", TRUE, Dumps(Count(8))), Element("c-wiz", FALSE, <<>>)>>,
     <<Div, Element("c-wiz", TRUE, Dumps(Count(8))),
       Element("c-wiz", TRUE, Dumps(Count(2)))>>}
        \cup {<<Element("c-wiz", TRUE, d)>> : d \in DataPs}

GetStatuses == {200, 404}

PostStatuses == {200, 500}

UrlPlain == <<"h", "t", "t", "p", ":", "/", "/", "a">>

UrlWithPrefix == <<"h", ":", "/", "a", ")", "]", "}", "'", "e">>

(* the body the endpoint answers with for a resolved URL u *)
RpcBody(u) ==
    Dumps(Arr(<<Arr(<<Str(<<"w", "r", "b">>), Str(RpcId),
                      Str(Dumps(Arr(<<Str(<<"r", "e", "s">>), Str(u)>>)))>>)>>))

(* [[1,2,<text>]] with the text embedded as a JSON string *)
Embed(text) == Dumps(Arr(<<Arr(<<Num(1), Num(2), Str(text)>>)>>))

Bodies ==
    {ResponsePrefix \o <<NL>> \o Embed(Dumps(Count(4) )),
     ResponsePrefix \o <<NL>> \o Embed(<<"[", "3", ",", "4", "]">>),
     ResponsePrefix \o <<NL>> \o RpcBody(UrlPlain),
     ResponsePrefix \o <<NL>> \o RpcBody(UrlWithPrefix),
     ResponsePrefix \o RpcBody(UrlPlain) \o <<NL>>,
     RpcBody(UrlPlain),
     RpcBody(UrlWithPrefix),
     <<NL>> \o ResponsePrefix \o RpcBody(UrlPlain),
     <<")", "]", "}">> \o ResponsePrefix \o <<"'">> \o <<NL>> \o RpcBody(UrlPlain),
     ResponsePrefix,
     <<>>,
     ResponsePrefix \o <<"[", "[">>,
     ResponsePrefix \o Dumps(Arr(<<>>)),
     ResponsePrefix \o Dumps(Arr(<<Arr(<<Num(0), Num(0)>>)>>)),
     ResponsePrefix \o Dumps(Arr(<<Arr(<<Num(0), Num(0), Num(5)>>)>>)),
     ResponsePrefix \o Dumps(Arr(<<Arr(<<Num(0), Num(0), Count(2)>>)>>)),
     ResponsePrefix \o Dumps(Obj(<< <<(<<"a">>), Num(1)>> >>)),
     ResponsePrefix \o Dumps(Arr(<<Obj(<<>>)>>)),
     ResponsePrefix \o Dumps(Num(5)),
     ResponsePrefix \o Dumps(Arr(<<Null>>)),
     ResponsePrefix \o Dumps(Str(<<"a", "q", "e">>)),
     ResponsePrefix \o Dumps(Arr(<<Str(<<"a", "q", "[", "1", "]">>)>>)),
     ResponsePrefix \o Embed(Dumps(Num(7))),
     ResponsePrefix \o Embed(Dumps(Str(<<"a", "q">>))),
     ResponsePrefix \o Embed(Dumps(Count(1))),
     ResponsePrefix \o Embed(Dumps(Obj(<<>>))),
     ResponsePrefix \o Embed(<<"[", "0", ",">>),
     ResponsePrefix \o Embed(Dumps(Arr(<<Num(0), Count(2)>>)))}

----------------------------------------------------------------------------
(* The run.  pc names the statement that executes next.                    *)

Init ==
    /\ pc = "get"
    /\ resp = NoResponse
    /\ data = Unset
    /\ obj = Unset
    /\ inner = Unset
    /\ payload = NoPayload
    /\ response = NoResponse
    /\ array_string = Unset
    /\ article_url = Unset
    /\ stdout = <<>>
    /\ exitCode = 0 - 1
    /\ error = "none"
    /\ failedAt = "none"
    /\ getCount = 0
    /\ postCount = 0

(* variant: the exception is swallowed and the script ends with status 0 *)
RaiseSwallowed(step, e) ==
    /\ pc' = "failed"
    /\ error' = e
    /\ failedAt' = step
    /\ exitCode' = 0

(* an uncaught exception e raised by statement step: the interpreter       *)
(* prints the traceback to stderr and exits with status 1                  *)
Raise(step, e) ==
    /\ pc' = "failed"
    /\ error' = e
    /\ failedAt' = step
    /\ exitCode' = 1

NoRaise == UNCHANGED <<error, failedAt, exitCode>>

(* line 7: resp = requests.get(google_rss_url) *)
Get ==
    /\ pc = "get"
    /\ getCount' = getCount + 1
    /\ \/ /\ Raise("get", "ConnectionError")
          /\ UNCHANGED resp
       \/ /\ \E st \in GetStatuses, page \in Pages :
                resp' = [status |-> st, text |-> page]
          /\ pc' = "select"
          /\ NoRaise
    /\ UNCHANGED <<data, obj, inner, payload, response, array_string,
                   article_url, stdout, postCount>>

(* line 8: data = BeautifulSoup(resp.text, ...).select_one(...).get('data-p') *)
Select ==
    /\ pc = "select"
    /\ LET i == SelectOne(resp.text)
       IN IF i = 0
          THEN Raise("select", "AttributeError") /\ UNCHANGED data
          ELSE /\ data' = Str(resp.text[i].dataP)
               /\ pc' = "loads"
               /\ NoRaise
    /\ UNCHANGED <<resp, obj, inner, payload, response, array_string,
                   article_url, stdout, getCount, postCount>>

(* line 9: obj = json.loads(data.replace('%.@.', '["garturlreq",')) *)
LoadToken ==
    /\ pc = "loads"
    /\ LET r == Loads(Replace(data.v, TokenPrefix, GartPrefix))
       IN IF ~r.ok
          THEN Raise("loads", "JSONDecodeError") /\ UNCHANGED obj
          ELSE /\ obj' = r.val
               /\ pc' = "build"
               /\ NoRaise
    /\ UNCHANGED <<resp, data, inner, payload, response, array_string,
                   article_url, stdout, getCount, postCount>>

(* the structure json.dumps serializes into f.req *)
Envelope(innerPayload) ==
    Arr(<<Arr(<<Arr(<<Str(RpcId), Str(innerPayload), Str(NullLit),
                      Str(GenericLit)>>)>>)>>)

(* lines 11-13: payload = {'f.req': json.dumps([[['Fbv4je',                *)
(*     json.dumps(obj[:-6] + obj[-2:]), 'null', 'generic']]])}             *)
(* list and str support slicing and +; a dict raises TypeError (KeyError   *)
(* from Python 3.12 on), every other value TypeError                       *)
Build ==
    /\ pc = "build"
    /\ IF obj.t \in {"arr", "str"}
       THEN /\ inner' = [t |-> obj.t, v |-> Transform(obj.v)]
            /\ payload' = [k \in {"f.req"} |-> Dumps(Envelope(Dumps(inner')))]
            /\ pc' = "post"
            /\ NoRaise
       ELSE /\ \E e \in (IF obj.t = "obj" THEN {"TypeError", "KeyError"}
                                          ELSE {"TypeError"}) :
                  Raise("build", e)
            /\ UNCHANGED <<inner, payload>>
    /\ UNCHANGED <<resp, data, obj, response, array_string, article_url,
                   stdout, getCount, postCount>>

(* variant: a failed POST is sent again *)
PostRetry ==
    /\ pc = "post"
    /\ postCount < 3
    /\ postCount' = postCount + 1
    /\ \/ UNCHANGED <<pc, response, error, failedAt, exitCode>>
       \/ /\ \E st \in PostStatuses, body \in Bodies :
                response' = [status |-> st, text |-> body]
          /\ pc' = "strip"
          /\ UNCHANGED <<error, failedAt, exitCode>>
    /\ UNCHANGED <<resp, data, obj, inner, payload, array_string,
                   article_url, stdout, getCount>>

(* line 21: response = requests.post(url, headers=headers, data=payload) *)
Post ==
    /\ pc = "post"
    /\ postCount' = postCount + 1
    /\ \/ /\ Raise("post", "ConnectionError")
          /\ UNCHANGED response
       \/ /\ \E st \in PostStatuses, body \in Bodies :
                response' = [status |-> st, text |-> body]
          /\ pc' = "strip"
          /\ NoRaise
    /\ UNCHANGED <<resp, data, obj, inner, payload, array_string,
                   article_url, stdout, getCount>>

(* response.text.replace(")]}'", "") *)
StripPrefix(text) == Replace(text, ResponsePrefix, <<>>)

(* json.loads(text)[0][2] *)
ArrayString(text) ==
    LET r == Loads(text)
    IN IF ~r.ok THEN PyErr("JSONDecodeError")
       ELSE LET a == Index(r.val, 0)
            IN IF ~a.ok THEN a ELSE Index(a.val, 2)

(* line 22: array_string = json.loads(response.text.replace(")]}'", ""))[0][2] *)
ParseResponse ==
    /\ pc = "strip"
    /\ LET r == ArrayString(StripPrefix(response.text))
       IN IF ~r.ok
          THEN Raise("strip", r.err) /\ UNCHANGED array_string
          ELSE /\ array_string' = r.val
               /\ pc' = "article"
               /\ NoRaise
    /\ UNCHANGED <<resp, data, obj, inner, payload, response, article_url,
                   stdout, getCount, postCount>>

(* json.loads(val)[1]; json.loads raises TypeError unless val is a str *)
ArticleUrl(val) ==
    IF val.t # "str" THEN PyErr("TypeError")
    ELSE LET r == Loads(val.v)
         IN IF ~r.ok THEN PyErr("JSONDecodeError") ELSE Index(r.val, 1)

(* line 23: article_url = json.loads(array_string)[1] *)
ParseArticle ==
    /\ pc = "article"
    /\ LET r == ArticleUrl(array_string)
       IN IF ~r.ok
          THEN Raise("article", r.err) /\ UNCHANGED article_url
          ELSE /\ article_url' = r.val
               /\ pc' = "print"
               /\ NoRaise
    /\ UNCHANGED <<resp, data, obj, inner, payload, response, array_string,
                   stdout, getCount, postCount>>

(* line 25: print(article_url), then the script ends with status 0 *)
PrintUrl ==
    /\ pc = "print"
    /\ stdout' = Append(stdout, article_url)
    /\ pc' = "done"
    /\ exitCode' = 0
    /\ UNCHANGED <<resp, data, obj, inner, payload, response, array_string,
                   article_url, error, failedAt, getCount, postCount>>

Next ==
    \/ Get
    \/ Select
    \/ LoadToken
    \/ Build
    \/ Post
    \/ ParseResponse
    \/ ParseArticle
    \/ PrintUrl

Spec == Init /\ [][Next]_vars

----------------------------------------------------------------------------
(* Properties *)

(* the error classes of the specification, by the exception raised *)
NetworkErrorClass == {"ConnectionError"}

ParseErrorClass ==
    {"AttributeError", "JSONDecodeError", "IndexError", "KeyError", "TypeError"}

Is2xx(st) == st >= 200 /\ st <= 299

StepOrder ==
    <<"get", "select", "loads", "build", "post", "strip", "article", "print",
      "done">>

Terminated == pc \in {"done", "failed"}

(* the general part of C1: for a list of length n >= 8 the built sequence  *)
(* is obj[0..n-6) followed by obj[n-2..n), of length n-4                   *)
SliceLaw ==
    (obj.t = "arr" /\ Len(obj.v) >= 8 /\ pc # "build") =>
        LET n == Len(obj.v)
        IN /\ inner.t = "arr"
           /\ inner.v = SubSeq(obj.v, 1, n - 6) \o SubSeq(obj.v, n - 1, n)
           /\ Len(inner.v) = n - 4

(* C1, as amended: for every token list of length n >= 8 the inner payload *)
(* sequence equals obj[0..n-6) followed by obj[n-2..n) and has length n-4; *)
(* [1,2,3,4,5,6,7,8] gives [1,2,7,8].                                      *)
C1_SliceLaw ==
    /\ SliceLaw
    /\ (obj = Count(8) /\ pc # "build") =>
           inner = Arr(<<Num(1), Num(2), Num(7), Num(8)>>)

C1_Witness ==
    /\ obj = Count(8)
    /\ inner = Arr(<<Num(1), Num(2), Num(7), Num(8)>>)
    /\ pc = "post"

(* C1 as stated: the same law, with the example [1,2,3,4,5,6,7,8] giving   *)
(* [1,2,3,4,7,8].                                                          *)
C1_AsStated ==
    /\ SliceLaw
    /\ (obj = Count(8) /\ pc # "build") =>
           inner = Arr(<<Num(1), Num(2), Num(3), Num(4), Num(7), Num(8)>>)

(* the exact removal of the leading prefix *)
AfterLeadingPrefix(text) == SubSeq(text, Len(ResponsePrefix) + 1, Len(text))

HasLeadingPrefix(text) == MatchAt(text, 1, ResponsePrefix)

(* the two parse layers applied to a JSON text J *)
TwoLayers(J) ==
    LET a == ArrayString(J) IN IF a.ok THEN ArticleUrl(a.val) ELSE a

(* C2: for every POST response body made of the prefix followed by a JSON  *)
(* text J, the run outputs element 1 of the value parsed from the string   *)
(* at J[0][2].                                                             *)
C2_TwoLayerResult ==
    (response # NoResponse /\ pc \in {"done", "failed"}
        /\ HasLeadingPrefix(response.text)
        /\ TwoLayers(AfterLeadingPrefix(response.text)).ok) =>
            /\ pc = "done"
            /\ stdout = <<TwoLayers(AfterLeadingPrefix(response.text)).val>>

(* C3: f.req is the JSON text of [[["Fbv4je", innerPayload, "null",        *)
(* "generic"]]] with innerPayload a string; parsing f.req and then its     *)
(* element [0][0][1] gives back the transformed token, and the three       *)
(* literal fields are the same for every input.                            *)
C3_EnvelopeRoundTrip ==
    (inner # Unset) =>
        /\ DOMAIN payload = {"f.req"}
        /\ LET o == Loads(payload["f.req"])
           IN /\ o.ok
              /\ o.val.t = "arr" /\ Len(o.val.v) = 1
              /\ o.val.v[1].t = "arr" /\ Len(o.val.v[1].v) = 1
              /\ LET e == o.val.v[1].v[1]
                 IN /\ e.t = "arr" /\ Len(e.v) = 4
                    /\ e.v[1] = Str(RpcId)
                    /\ e.v[3] = Str(NullLit)
                    /\ e.v[4] = Str(GenericLit)
                    /\ e.v[2].t = "str"
                    /\ Loads(e.v[2].v).ok
                    /\ Loads(e.v[2].v).val = inner

C3_Witness ==
    /\ pc = "post"
    /\ inner.t = "arr"
    /\ \E i \in 1..Len(inner.v) :
          inner.v[i].t = "str" /\ \E k \in 1..Len(inner.v[i].v) :
                                     inner.v[i].v[k] \in {QUOTE, BSL, NL}

NoMatch(page) ==
    ~ \E i \in 1..Len(page) : page[i].tag = "c-wiz" /\ page[i].hasDataP

(* C4: when the fetched page has no c-wiz element with a data-p attribute  *)
(* the run fails at the extraction with a parse error, the POST is never   *)
(* issued and nothing is printed.                                          *)
C4_NoElementNoPost ==
    (resp # NoResponse /\ NoMatch(resp.text)) =>
        /\ postCount = 0
        /\ response = NoResponse
        /\ stdout = <<>>
        /\ pc \in {"select", "failed"}
        /\ pc = "failed" =>
              failedAt = "select" /\ error \in ParseErrorClass

C4_Witness ==
    /\ pc = "failed"
    /\ failedAt = "select"
    /\ Len(resp.text) = 3
    /\ NoMatch(resp.text)
    /\ postCount = 0

(* C5: a non-2xx GET or POST response ends the run in a NetworkError: after *)
(* a non-2xx GET no token is extracted and no POST is issued, after a      *)
(* non-2xx POST the body is not parsed, and nothing is printed.            *)
C5_Non2xxAborts ==
    /\ (resp # NoResponse /\ ~Is2xx(resp.status)) =>
          /\ data = Unset
          /\ postCount = 0
          /\ stdout = <<>>
          /\ Terminated => (pc = "failed" /\ error \in NetworkErrorClass)
    /\ (response # NoResponse /\ ~Is2xx(response.status)) =>
          /\ array_string = Unset
          /\ stdout = <<>>
          /\ Terminated => (pc = "failed" /\ error \in NetworkErrorClass)

(* C6: the statements run in the order GET, extract, build, POST, parse,   *)
(* print; the POST is issued only after the GET has completed and the      *)
(* envelope has been built from its body; the GET and the POST are each    *)
(* issued at most once; after a failure no statement executes.             *)
C6_StrictOrder ==
    [][ /\ pc' # pc =>
            \/ pc' = "failed" /\ pc # "done"
            \/ \E i \in 1..(Len(StepOrder) - 1) :
                  pc = StepOrder[i] /\ pc' = StepOrder[i + 1]
        /\ pc \in {"done", "failed"} => UNCHANGED vars
        /\ getCount' <= 1 /\ postCount' <= 1
        /\ getCount' # getCount => pc = "get"
        /\ postCount' # postCount =>
              /\ pc = "post"
              /\ getCount = 1
              /\ resp # NoResponse
              /\ SelectOne(resp.text) # 0
              /\ data = Str(resp.text[SelectOne(resp.text)].dataP)
              /\ inner # Unset
              /\ payload = [k \in {"f.req"} |-> Dumps(Envelope(Dumps(inner)))]
      ]_vars

C6_Witness == pc = "done" /\ getCount = 1 /\ postCount = 1

(* C7: every run ends either in success, with exactly one value printed    *)
(* and exit status 0, or in failure, with nothing printed and a non-zero   *)
(* exit status; a printed value and a failed statement never coexist.      *)
C7_TwoOutcomes ==
    /\ pc \in {StepOrder[i] : i \in 1..Len(StepOrder)} \cup {"failed"}
    /\ pc = "done" =>
          /\ stdout = <<article_url>>
          /\ article_url # Unset
          /\ exitCode = 0
          /\ error = "none"
    /\ pc = "failed" =>
          /\ stdout = <<>>
          /\ exitCode > 0
          /\ error # "none"
    /\ stdout # <<>> => (pc = "done" /\ error = "none" /\ failedAt = "none")
    /\ ~Terminated => (exitCode = 0 - 1 /\ stdout = <<>> /\ error = "none")

C7_Witness == pc = "done" /\ stdout = <<Str(UrlPlain)>> /\ exitCode = 0

(* C8: the strip removes exactly the 4 leading characters of the body and  *)
(* leaves every other character unchanged, stripping twice changes         *)
(* nothing, and a body that does not start with the prefix is rejected     *)
(* with a parse error.                                                     *)
C8_ExactStrip ==
    (response # NoResponse /\ pc # "strip") =>
        /\ HasLeadingPrefix(response.text) =>
              StripPrefix(response.text) = AfterLeadingPrefix(response.text)
        /\ StripPrefix(StripPrefix(response.text)) = StripPrefix(response.text)
        /\ ~HasLeadingPrefix(response.text) =>
              /\ pc = "failed"
              /\ failedAt = "strip"
              /\ error \in ParseErrorClass

(* C9: a token that, after the prefix replacement, is not valid JSON or    *)
(* is not a JSON array makes the run fail with a parse error before any    *)
(* envelope is built, and no POST is issued.                               *)
C9_NonArrayRejected ==
    (data # Unset /\ pc # "loads") =>
        LET r == Loads(Replace(data.v, TokenPrefix, GartPrefix))
        IN (~r.ok \/ r.val.t # "arr") =>
              /\ inner = Unset
              /\ DOMAIN payload = {}
              /\ postCount = 0
              /\ pc \in {"build", "failed"}
              /\ pc = "failed" =>
                    failedAt \in {"loads", "build"} /\ error \in ParseErrorClass

(* a is b with elements left out: matched left to right at strictly        *)
(* increasing indices of b                                                 *)
RECURSIVE IsSubseq(_, _)
IsSubseq(a, b) ==
    IF a = <<>> THEN TRUE
    ELSE IF b = <<>> THEN FALSE
    ELSE IF Head(a) = Head(b) THEN IsSubseq(Tail(a), Tail(b))
    ELSE IsSubseq(a, Tail(b))

(* C10: for a token list of any length n >= 0 the build does not fail and  *)
(* its sequence is an order-preserving subsequence of obj using no index   *)
(* twice, of length n-4 when n >= 6 and min(n, 2) when n < 6: a short      *)
(* token is cut down to its last two elements.                             *)
C10_ShortTokenTruncated ==
    (obj.t = "arr" /\ pc # "build") =>
        LET n == Len(obj.v)
        IN /\ failedAt # "build"
           /\ inner.t = "arr"
           /\ Len(inner.v) = (IF n >= 6 THEN n - 4 ELSE Min(n, 2))
           /\ IsSubseq(inner.v, obj.v)
           /\ n < 6 => inner.v = SubSeq(obj.v, Max(n - 1, 1), n)

C10_Witness ==
    /\ obj = Count(3)
    /\ inner = Arr(<<Num(2), Num(3)>>)
    /\ postCount = 1

====
